---- MODULE Spec2Model ----
(***************************************************************************)
(* Model of the proctoring session store and its HTTP routes               *)
(* (frontend/src/app/api/sessions/...): the "sessions" and "events"        *)
(* collections, and the route handlers that read and write them.  A        *)
(* handler that awaits two store calls is two steps, so requests           *)
(* interleave exactly where the code awaits.                               *)
(***************************************************************************)
EXTENDS Integers, Sequences, FiniteSets, TLC

VARIABLES
    sessions,     \* collection "sessions": documents in insertion (_id) order
    events,       \* collection "events": documents in insertion (_id) order
    submitting,   \* events-route requests between insertMany and updateOne
    saving,       \* save-branch requests between findOne and the write
    clock,        \* Date.now() of the server
    received,     \* how many requests the routes have taken up
    response,     \* the response of the request that completed last
    sessionStats, \* the interview page's sessionStats (React state)
    scores,       \* the integrity score each place last computed from them
    isSessionActive,   \* the interview page's isSessionActive
    pageSessionId,     \* the interview page's sessionId
    sessionStartTime,  \* the interview page's sessionStartTime
    pageEvents,        \* the interview page's events
    ending,            \* endSession calls that await the backend's answer
    redirecting,       \* the timeout that leaves for /dashboard is set
    isRecording,       \* the interview page's isRecording
    websocketRef,      \* VideoStream: the socket websocketRef.current holds
    replaced,          \* VideoStream: closed sockets whose callbacks are due
    isConnected,       \* VideoStream's isConnected
    error,             \* VideoStream's error ("" for null)
    dashboardSessions, \* the dashboard page's sessions
    dashboardError,    \* the dashboard page's error ("" for null)
    loading            \* the dashboard page's loading

vars == <<sessions, events, submitting, saving, clock, received, response,
          sessionStats, scores, isSessionActive, pageSessionId,
          sessionStartTime, pageEvents, ending, redirecting, isRecording,
          websocketRef, replaced, isConnected, error, dashboardSessions,
          dashboardError, loading>>

storeVars == <<sessions, events, submitting, saving, clock, received, response>>
\* the state of the interview page but its counters and event list
sessionVars == <<isSessionActive, isRecording, pageSessionId, sessionStartTime,
                 ending, redirecting>>
\* the state of VideoStream: what it shows, and its sockets
connectionVars == <<isConnected, error>>
socketVars == <<websocketRef, replaced>>
streamVars == <<connectionVars, socketVars>>
\* the state of the dashboard page
dashboardVars == <<dashboardSessions, dashboardError, loading>>
pageVars == <<sessionStats, scores, pageEvents, sessionVars, streamVars, dashboardVars>>

----------------------------------------------------------------------------
(* Bounds *)

MaxRequests == 3     \* requests received in one run
MaxEvents == 4       \* documents in "events"
MaxInFlight == 2     \* requests suspended at an await
MaxTime == 2         \* last instant of the clock
MaxCount == 7        \* events of one type the page has counted
MaxPageEvents == 2   \* events the page takes in one run
MaxListed == 52      \* sessions in the store when it is listed
MaxOld == 3          \* sessions of the listed store with the earlier startTime
MaxReplaced == 2     \* closed sockets whose callbacks are due
MaxEnding == 2       \* endSession calls that await the backend

----------------------------------------------------------------------------
(* Values *)

\* .limit(50) of GET /api/sessions
ListLimit == 50

\* the value of a field the object does not have (endTime?: Date)
Undefined == 0 - 1
\* BSON null: what the driver stores for a $set value of undefined
Null == 0 - 2
\* new Date(undefined): a Date object holding no time
InvalidDate == 0 - 3

Times == 1..MaxTime

SessionIds == {"s1", "s2"}

EventTypes == {"looking_away", "no_face", "multiple_faces", "unauthorized_object"}

CounterFields ==
    {"lookingAwayCount", "noFaceCount", "multipleFaceCount", "unauthorizedObjectCount"}

\* the fields the events route increments
TallyFields == CounterFields \cup {"totalEvents"}

SessionFields ==
    {"sessionId", "candidateName", "startTime", "endTime", "duration",
     "totalEvents", "integrityScore", "status", "events"} \cup CounterFields

\* new Date(x) for a JSON value x: an absent or null value gives an invalid
\* Date, a time gives that time.
ToDate(x) == IF x \in Times THEN x ELSE InvalidDate

\* JavaScript truthiness of a date-valued JSON field
Truthy(x) == x \in Times

Max(a, b) == IF a >= b THEN a ELSE b

\* String.prototype.trim on a string held as a sequence of characters
RECURSIVE TrimLeft(_)
TrimLeft(s) ==
    IF s = <<>> THEN <<>>
    ELSE IF Head(s) = " " THEN TrimLeft(Tail(s)) ELSE s

RECURSIVE TrimRight(_)
TrimRight(s) ==
    IF s = <<>> THEN <<>>
    ELSE IF s[Len(s)] = " " THEN TrimRight(SubSeq(s, 1, Len(s) - 1)) ELSE s

Trim(s) == TrimRight(TrimLeft(s))

----------------------------------------------------------------------------
(* Scoring, as the events route computes it *)

\* eventCounts of a request body: one count per known type, other types
\* fall through the switch
EventCounts(evs) ==
    [lookingAwayCount |->
        Cardinality({i \in 1..Len(evs) : evs[i].eventType = "looking_away"}),
     noFaceCount |->
        Cardinality({i \in 1..Len(evs) : evs[i].eventType = "no_face"}),
     multipleFaceCount |->
        Cardinality({i \in 1..Len(evs) : evs[i].eventType = "multiple_faces"}),
     unauthorizedObjectCount |->
        Cardinality({i \in 1..Len(evs) : evs[i].eventType = "unauthorized_object"})]

\* the deductions with the weights of looking away and no face exchanged
DeductionsSwapped(c) ==
    (c.lookingAwayCount * 3) + (c.noFaceCount * 2)
    + (c.multipleFaceCount * 10) + (c.unauthorizedObjectCount * 15)

Deductions(c) ==
    (c.lookingAwayCount * 2) + (c.noFaceCount * 3)
    + (c.multipleFaceCount * 10) + (c.unauthorizedObjectCount * 15)

IntegrityScore(c) == Max(0, 100 - Deductions(c))

\* the page's score with the weights of looking away and no face exchanged
SaveIntegrityScoreSwapped(stats) ==
    Max(0, 100 - ((stats.lookingAwayCount * 3) + (stats.noFaceCount * 2)
                  + (stats.multipleFaceCount * 10)
                  + (stats.unauthorizedObjectCount * 15)))

\* the same score as saveSessionToMongoDB of the interview page computes it
\* from its sessionStats
SaveIntegrityScore(stats) ==
    Max(0, 100 - ((stats.lookingAwayCount * 2) + (stats.noFaceCount * 3)
                  + (stats.multipleFaceCount * 10)
                  + (stats.unauthorizedObjectCount * 15)))

\* the monitor's score without Math.max
CalculateIntegrityScoreUnclamped(stats) ==
    100 - (stats.lookingAwayCount * 2 + stats.noFaceCount * 3
           + stats.multipleFaceCount * 10 + stats.unauthorizedObjectCount * 15)

\* calculateIntegrityScore of ProctorMonitor, from the sessionStats prop
CalculateIntegrityScore(stats) ==
    Max(0, 100 - (stats.lookingAwayCount * 2 + stats.noFaceCount * 3
                  + stats.multipleFaceCount * 10
                  + stats.unauthorizedObjectCount * 15))

----------------------------------------------------------------------------
(* The store *)

\* indexes of the documents a filter { sessionId } matches
Matching(sid) == {i \in 1..Len(sessions) : sessions[i].sessionId = sid}

\* findOne({ sessionId }): whether a document is found
Exists(sid) == Matching(sid) # {}

\* the document updateOne and findOne act on: the first match
FirstMatch(sid) == CHOOSE i \in Matching(sid) : \A j \in Matching(sid) : i <= j

\* $set: every field of upd replaces or adds that field of doc
SetFields(doc, upd) ==
    [f \in DOMAIN doc \cup DOMAIN upd |->
        IF f \in DOMAIN upd THEN upd[f] ELSE doc[f]]

\* $inc: every field of inc is added to that field of doc
IncFields(doc, inc) ==
    [f \in DOMAIN doc |-> IF f \in DOMAIN inc THEN doc[f] + inc[f] ELSE doc[f]]

\* an update document without operators of one kind
NoFields == <<>>

\* the same update with upsert: no match inserts a document
UpdateOneUpsert(sid, update) ==
    IF Exists(sid)
    THEN [sessions EXCEPT ![FirstMatch(sid)] =
            SetFields(IncFields(@, update.inc), update.set)]
    ELSE Append(sessions, SetFields([sessionId |-> sid], update.set))

\* updateOne({ sessionId }, { $inc, $set }) on "sessions": the first matching
\* document gets update.inc added and update.set written; no match leaves the
\* collection as it is
UpdateOne(sid, update) ==
    IF Exists(sid)
    THEN [sessions EXCEPT ![FirstMatch(sid)] =
            SetFields(IncFields(@, update.inc), update.set)]
    ELSE sessions

InFlight == Len(submitting) + Len(saving)

Remove(seq, i) == SubSeq(seq, 1, i - 1) \o SubSeq(seq, i + 1, Len(seq))

NoResponse ==
    [route |-> "none", sessionId |-> "", code |-> 0, integrityScore |-> 0,
     body |-> <<>>]

\* a response without documents
Respond(route, sid, code, score) ==
    [route |-> route, sessionId |-> sid, code |-> code, integrityScore |-> score,
     body |-> <<>>]

\* a response that carries documents of a collection
RespondWith(route, sid, code, docs) ==
    [route |-> route, sessionId |-> sid, code |-> code, integrityScore |-> 0,
     body |-> docs]

\* a route takes up one more request
Receive ==
    /\ received < MaxRequests
    /\ received' = received + 1

\* obj.f in JavaScript: undefined when the object has no field f
Get(obj, f) == IF f \in DOMAIN obj THEN obj[f] ELSE Undefined

----------------------------------------------------------------------------
(* Request bodies *)

\* candidate names, as sequences of characters
Names == {<<"A", " ">>, <<" ">>, <<>>}

\* bodies of POST /api/sessions without sessionId: the name as a bare JSON
\* string (candidateName is then the string itself), or as { candidateName }
StartBodies == [isString : BOOLEAN, candidateName : Names]

\* an event of a request body; confidence in hundredths, 90 for 0.9
Ev(type, ts) == [eventType |-> type, confidence |-> 90, timestamp |-> ts]

\* bodies of POST /api/sessions/[sessionId]/events
SubmitBodies ==
    {<<>>}
    \cup {<<Ev(t, 1)>> : t \in EventTypes \cup {"talking"}}
    \cup {<<Ev("looking_away", 2)>>,
          <<Ev("looking_away", 1), Ev("looking_away", 1)>>,
          <<Ev("no_face", 1), Ev("multiple_faces", 1)>>,
          <<Ev("no_face", 1), Ev("no_face", 1), Ev("multiple_faces", 1)>>,
          <<Ev("looking_away", 1), Ev("talking", 1)>>,
          <<[Ev("no_face", 1) EXCEPT !.confidence = 150]>>,
          <<SetFields(Ev("looking_away", 1), [sessionId |-> "s2"])>>}

\* the JSON value of a request body that is an array
JsonArray(body) == [isArray |-> TRUE, value |-> body]

\* the JSON value of a request body that is an object
JsonObject(obj) == [isArray |-> FALSE, value |-> obj]

\* what request.json() of the events route can give: an array of events, or
\* an object (a single event outside an array, or a wrapper of the array)
SubmitRequests ==
    {JsonArray(body) : body \in SubmitBodies}
    \cup {JsonObject(Ev("looking_away", 1)),
          JsonObject([events |-> <<Ev("looking_away", 1)>>])}

ZeroCounts ==
    [lookingAwayCount |-> 0, noFaceCount |-> 0,
     multipleFaceCount |-> 0, unauthorizedObjectCount |-> 0]

\* the page's sessionStats when the session is saved
PageStats == {ZeroCounts, [ZeroCounts EXCEPT !.lookingAwayCount = 1]}

\* the events the page has collected when its sessionStats are c (the bodies
\* here count looking_away events only), as saveSessionToMongoDB maps them
PageEvents(sid, c) ==
    [i \in 1..c.lookingAwayCount |->
        [eventType |-> "looking_away", confidence |-> 90,
         timestamp |-> ToDate(1), sessionId |-> sid]]

\* sessionData of saveSessionToMongoDB: the session the page has collected,
\* ended at instant t
PageSession(sid, c, t) ==
    [sessionId |-> sid,
     candidateName |-> <<"A">>,
     startTime |-> 1,
     endTime |-> t,
     duration |-> t,
     totalEvents |-> Len(PageEvents(sid, c)),
     lookingAwayCount |-> c.lookingAwayCount,
     noFaceCount |-> c.noFaceCount,
     multipleFaceCount |-> c.multipleFaceCount,
     unauthorizedObjectCount |-> c.unauthorizedObjectCount,
     integrityScore |-> SaveIntegrityScore(c),
     status |-> "completed",
     events |-> PageEvents(sid, c)]

\* the same shape sent as a checkpoint of a session still running: status
\* active and no endTime
Checkpoint(sid, c) ==
    [f \in SessionFields \ {"endTime"} |->
        IF f = "status" THEN "active" ELSE PageSession(sid, c, 1)[f]]

\* bodies of POST /api/sessions that carry a sessionId
SaveBodies ==
    {PageSession(sid, c, t) : sid \in SessionIds, c \in PageStats, t \in {1, 2}}
    \cup {Checkpoint(sid, c) : sid \in SessionIds, c \in PageStats}

\* bodies of PATCH /api/sessions/[sessionId]
PatchBodies ==
    {[status |-> "completed", endTime |-> 2],
     [status |-> "completed"],
     [status |-> "active"],
     [lookingAwayCount |-> 0],
     [duration |-> 2],
     [sessionId |-> "s2"]}

----------------------------------------------------------------------------
(* POST /api/sessions, create branch *)

\* sessionIds no document and no request in flight carries: what
\* session_<Date.now()>_<random> can come out as
FreshIds ==
    {sid \in SessionIds :
        /\ ~Exists(sid)
        /\ \A i \in 1..Len(events) : events[i].sessionId # sid
        /\ \A i \in 1..Len(submitting) : submitting[i].sessionId # sid
        /\ \A i \in 1..Len(saving) : saving[i].body.sessionId # sid}

\* a record created with nothing left of the score
NewSessionScoreless(sid, name, t) ==
    [sessionId |-> sid,
     candidateName |-> Trim(name),
     startTime |-> t,
     duration |-> 0,
     totalEvents |-> 0,
     lookingAwayCount |-> 0,
     noFaceCount |-> 0,
     multipleFaceCount |-> 0,
     unauthorizedObjectCount |-> 0,
     integrityScore |-> 0,
     status |-> "active",
     events |-> <<>>]

\* the session object of the create branch
NewSession(sid, name, t) ==
    [sessionId |-> sid,
     candidateName |-> Trim(name),
     startTime |-> t,
     duration |-> 0,
     totalEvents |-> 0,
     lookingAwayCount |-> 0,
     noFaceCount |-> 0,
     multipleFaceCount |-> 0,
     unauthorizedObjectCount |-> 0,
     integrityScore |-> 100,
     status |-> "active",
     events |-> <<>>]

\* a test of the name that lets whitespace through
NameEmpty(candidateName) == candidateName = <<>>

\* !candidateName?.trim()
NameMissing(candidateName) == Trim(candidateName) = <<>>

\* a body without sessionId: a bare string, or { candidateName }
StartSession(requestData) ==
    /\ Receive
    /\ IF requestData.isString \/ requestData.candidateName # <<>>
       THEN \* the create branch: a string, or a candidateName that is truthy
            LET candidateName == requestData.candidateName
            IN  IF NameMissing(candidateName)
                THEN /\ response' = Respond("start", "", 400, 0)
                     /\ UNCHANGED <<sessions, events, submitting, saving, clock, pageVars>>
                ELSE /\ \E sid \in FreshIds, t \in clock..MaxTime :
                           /\ sessions' = Append(sessions, NewSession(sid, candidateName, t))
                           /\ clock' = t
                           /\ response' = Respond("start", sid, 200, 0)
                     /\ UNCHANGED <<events, submitting, saving, pageVars>>
       ELSE \* { candidateName: "" } is falsy and has no sessionId: the last else
            /\ response' = Respond("start", "", 400, 0)
            /\ UNCHANGED <<sessions, events, submitting, saving, clock, pageVars>>

----------------------------------------------------------------------------
(* POST /api/sessions, save branch *)

SessionData(body) ==
    SetFields(body, [startTime |-> ToDate(Get(body, "startTime")),
                     endTime |-> ToDate(Get(body, "endTime"))])

\* up to the await of findOne
SaveFind(body) ==
    /\ Receive
    /\ InFlight < MaxInFlight
    /\ saving' = Append(saving, [body |-> body, existing |-> Exists(body.sessionId)])
    /\ UNCHANGED <<sessions, events, submitting, clock, response, pageVars>>

\* an update of the existing record that finalizes it only: endTime, status
\* and duration, and nothing else of the body
SaveUpdateEndOnly(body) ==
    [inc |-> NoFields,
     set |-> [f \in {"endTime", "status", "duration"} |-> SessionData(body)[f]]]

\* the update document of the save branch's updateOne: { $set: sessionData }
SaveUpdate(body) == [inc |-> NoFields, set |-> SessionData(body)]

\* from the result of findOne to the response
SaveWrite(i) ==
    /\ sessions' =
          IF saving[i].existing
          THEN UpdateOne(saving[i].body.sessionId, SaveUpdate(saving[i].body))
          ELSE Append(sessions, SessionData(saving[i].body))
    /\ saving' = Remove(saving, i)
    /\ response' = Respond("save", saving[i].body.sessionId, 200, 0)
    /\ UNCHANGED <<events, submitting, clock, received, pageVars>>

----------------------------------------------------------------------------
(* POST /api/sessions/[sessionId]/events *)

\* the same mapping with the event spread last: an event that names a
\* sessionId keeps it
EventsWithTimestampSpreadLast(sid, body) ==
    [i \in 1..Len(body) |->
        SetFields([sessionId |-> sid,
                   timestamp |-> ToDate(body[i].timestamp),
                   id |-> Len(events) + i],
                  [f \in DOMAIN body[i] \ {"timestamp"} |-> body[i][f]])]

\* eventsWithTimestamp: the body's events under the route's sessionId, each
\* with an id of its own (here its place in the collection)
EventsWithTimestamp(sid, body) ==
    [i \in 1..Len(body) |->
        SetFields(body[i], [sessionId |-> sid,
                            timestamp |-> ToDate(body[i].timestamp),
                            id |-> Len(events) + i])]

\* a test of the body that lets an empty array through
BodyNotArray(json) == ~json.isArray

\* !Array.isArray(events) || events.length === 0
BodyRefused(json) == ~json.isArray \/ Len(json.value) = 0

\* up to the await of insertMany
SubmitInsert(sid, json) ==
    /\ Receive
    /\ IF BodyRefused(json)
       THEN /\ response' = Respond("submit", sid, 400, 0)
            /\ UNCHANGED <<sessions, events, submitting, saving, clock, pageVars>>
       ELSE LET body == json.value
            IN  /\ InFlight < MaxInFlight
                /\ Len(events) + Len(body) <= MaxEvents
                /\ events' = events \o EventsWithTimestamp(sid, body)
                /\ submitting' = Append(submitting, [sessionId |-> sid, body |-> body])
                /\ UNCHANGED <<sessions, saving, clock, response, pageVars>>

\* the same update with a blind overwrite: the batch's counts written with $set
EventsUpdateOverwrite(body) ==
    [inc |-> NoFields,
     set |-> [f \in TallyFields \cup {"integrityScore"} |->
                IF f = "totalEvents" THEN Len(body)
                ELSE IF f = "integrityScore" THEN IntegrityScore(EventCounts(body))
                ELSE EventCounts(body)[f]]]

\* the update document of the route's updateOne: $inc of the batch's counts
\* and $set of the batch's score
EventsUpdate(body) ==
    [inc |-> [f \in TallyFields |->
                IF f = "totalEvents" THEN Len(body) ELSE EventCounts(body)[f]],
     set |-> [integrityScore |-> IntegrityScore(EventCounts(body))]]

\* from the result of insertMany to the response
SubmitUpdate(i) ==
    /\ sessions' = UpdateOne(submitting[i].sessionId, EventsUpdate(submitting[i].body))
    /\ submitting' = Remove(submitting, i)
    /\ response' = Respond("submit", submitting[i].sessionId, 200,
                            IntegrityScore(EventCounts(submitting[i].body)))
    /\ UNCHANGED <<events, saving, clock, received, pageVars>>

\* getDatabase or insertMany throws: the catch block answers 500 and nothing
\* has been written
SubmitInsertFails(sid, body) ==
    /\ Receive
    /\ Len(body) > 0
    /\ response' = Respond("submit", sid, 500, 0)
    /\ UNCHANGED <<sessions, events, submitting, saving, clock, pageVars>>

\* updateOne throws after insertMany has succeeded: the catch block answers
\* 500 and the inserted events stay
SubmitUpdateFails(i) ==
    /\ submitting' = Remove(submitting, i)
    /\ response' = Respond("submit", submitting[i].sessionId, 500, 0)
    /\ UNCHANGED <<sessions, events, saving, clock, received, pageVars>>

----------------------------------------------------------------------------
(* PATCH /api/sessions/[sessionId] *)

\* the $set document: the body, and endTime always
PatchSet(updates) ==
    SetFields(updates,
              [endTime |-> IF Truthy(Get(updates, "endTime"))
                           THEN ToDate(updates.endTime)
                           ELSE Null])

Patch(sid, updates) ==
    /\ Receive
    /\ sessions' = UpdateOne(sid, [inc |-> NoFields, set |-> PatchSet(updates)])
    /\ response' = Respond("patch", sid, IF Exists(sid) THEN 200 ELSE 404, 0)
    /\ UNCHANGED <<events, submitting, saving, clock, pageVars>>

----------------------------------------------------------------------------
(* GET /api/sessions/[sessionId] *)

\* a lookup that takes the first document of the collection, whatever its
\* sessionId
FindFirst(sid) == IF Len(sessions) > 0 THEN <<sessions[1]>> ELSE <<>>

\* findOne({ sessionId }) on "sessions": the document found, or none (null)
FindOne(sid) == IF Exists(sid) THEN <<sessions[FirstMatch(sid)]>> ELSE <<>>

GetSession(sid) ==
    /\ Receive
    /\ response' = IF FindOne(sid) = <<>>
                   THEN Respond("get", sid, 404, 0)
                   ELSE RespondWith("get", sid, 200, FindOne(sid))
    /\ UNCHANGED <<sessions, events, submitting, saving, clock, pageVars>>

----------------------------------------------------------------------------
(* GET /api/sessions and GET /api/sessions/[sessionId]/events *)

Min(a, b) == IF a <= b THEN a ELSE b

\* whether docs[i] comes before docs[j] under sort({ field: 1 })
ComesBeforeAscending(docs, field, natural, i, j) ==
    \/ Get(docs[i], field) < Get(docs[j], field)
    \/ /\ Get(docs[i], field) = Get(docs[j], field)
       /\ IF natural THEN i < j ELSE i > j

\* whether docs[i] comes before docs[j] under sort({ field: -1 }): the larger
\* value first (a date before an absent or null value); the store does not
\* fix the order of equal values, which is the insertion order (natural) or
\* its reverse
ComesBefore(docs, field, natural, i, j) ==
    \/ Get(docs[i], field) > Get(docs[j], field)
    \/ /\ Get(docs[i], field) = Get(docs[j], field)
       /\ IF natural THEN i < j ELSE i > j

\* .sort({ field: -1 }).toArray(): each document at the place after those
\* that come before it
SortDescending(docs, field, natural) ==
    LET n == Len(docs)
        place == SubSeq([i \in 1..n |->
                           1 + Cardinality({j \in 1..n :
                                  ComesBefore(docs, field, natural, j, i)})], 1, n)
    IN  [p \in 1..n |-> docs[CHOOSE i \in 1..n : place[i] = p]]

\* .limit(k)
Limit(docs, k) == SubSeq(docs, 1, Min(k, Len(docs)))

\* GET /api/sessions
ListSessions ==
    /\ Receive
    /\ \E natural \in BOOLEAN :
          response' = RespondWith("list", "", 200,
                         Limit(SortDescending(sessions, "startTime", natural), ListLimit))
    /\ UNCHANGED <<sessions, events, submitting, saving, clock, pageVars>>

\* a find without a filter
FindAllEvents(sid) == events

\* find({ sessionId }) on "events"
FindEvents(sid) == SelectSeq(events, LAMBDA ev : ev.sessionId = sid)

\* GET /api/sessions/[sessionId]/events
GetEvents(sid) ==
    /\ Receive
    /\ \E natural \in BOOLEAN :
          response' = RespondWith("events", sid, 200,
                         SortDescending(FindEvents(sid), "timestamp", natural))
    /\ UNCHANGED <<sessions, events, submitting, saving, clock, pageVars>>

----------------------------------------------------------------------------
(* VideoStream: the WebSocket to the producer of the events *)

\* a WebSocket: its readyState and the session its URL names
Socket(readyState, sid) == [readyState |-> readyState, sessionId |-> sid]

\* useRef's initial websocketRef.current: null
NoSocket == Socket("NONE", "")

\* the sockets the effect's cleanup has closed and whose close (after
\* readyState OPEN) or error and close (after CONNECTING) events are due
NoneReplaced == [readyState \in {"CONNECTING", "OPEN"} |-> 0]

Replaced == replaced["CONNECTING"] + replaced["OPEN"]

\* the message of ws.onerror
ConnectionLost == "Connection to proctoring server lost"

\* connectWebSocket: a new socket to the session of this render
ConnectWebSocket ==
    websocketRef' = Socket("CONNECTING", pageSessionId)

\* the cleanup of the WebSocket effect: close() of websocketRef.current,
\* which does nothing to a socket that has closed
Cleanup ==
    replaced' = IF websocketRef.readyState \in {"CONNECTING", "OPEN"}
                THEN [replaced EXCEPT ![websocketRef.readyState] = @ + 1]
                ELSE replaced

\* a WebSocket effect that would not depend on onEvent: a render of the
\* page leaves the socket alone
RenderKeepsSocket ==
    /\ Replaced < MaxReplaced
    /\ UNCHANGED socketVars

\* the interview page renders: handleNewEvent is a new function, so the
\* WebSocket effect [sessionId, isRecording, onEvent] of VideoStream cleans
\* up and runs again
Render ==
    /\ Replaced < MaxReplaced
    /\ Cleanup
    /\ ConnectWebSocket

\* ws.onopen of the socket in websocketRef
SocketOpen ==
    /\ websocketRef.readyState = "CONNECTING"
    /\ websocketRef' = [websocketRef EXCEPT !.readyState = "OPEN"]
    /\ isConnected' = TRUE
    /\ error' = ""
    /\ UNCHANGED <<storeVars, dashboardVars, sessionStats, scores, pageEvents,
                   sessionVars, replaced>>

\* ws.onclose of the socket in websocketRef: the producer has closed it
SocketClose ==
    /\ websocketRef.readyState = "OPEN"
    /\ websocketRef' = [websocketRef EXCEPT !.readyState = "CLOSED"]
    /\ isConnected' = FALSE
    /\ UNCHANGED <<storeVars, dashboardVars, sessionStats, scores, pageEvents,
                   sessionVars, replaced, error>>

\* an error handler that would stop the recording as well
SocketErrorStopsRecording ==
    /\ websocketRef.readyState \in {"CONNECTING", "OPEN"}
    /\ websocketRef' = [websocketRef EXCEPT !.readyState = "CLOSED"]
    /\ error' = ConnectionLost
    /\ isConnected' = FALSE
    /\ isRecording' = FALSE
    /\ UNCHANGED <<storeVars, dashboardVars, sessionStats, scores, pageEvents, isSessionActive,
                   pageSessionId, sessionStartTime, ending, redirecting, replaced>>

\* ws.onerror, then ws.onclose, of the socket in websocketRef: the
\* connection has failed
SocketError ==
    /\ websocketRef.readyState \in {"CONNECTING", "OPEN"}
    /\ websocketRef' = [websocketRef EXCEPT !.readyState = "CLOSED"]
    /\ error' = ConnectionLost
    /\ isConnected' = FALSE
    /\ UNCHANGED <<storeVars, dashboardVars, sessionStats, scores, pageEvents,
                   sessionVars, replaced>>

\* ws.onclose of a socket the cleanup closed when it was open
ReplacedClose ==
    /\ replaced["OPEN"] > 0
    /\ replaced' = [replaced EXCEPT !["OPEN"] = @ - 1]
    /\ isConnected' = FALSE
    /\ UNCHANGED <<storeVars, dashboardVars, sessionStats, scores, pageEvents, sessionVars,
                   websocketRef, error>>

\* ws.onerror, then ws.onclose, of a socket the cleanup closed before it
\* had opened
ReplacedError ==
    /\ replaced["CONNECTING"] > 0
    /\ replaced' = [replaced EXCEPT !["CONNECTING"] = @ - 1]
    /\ error' = ConnectionLost
    /\ isConnected' = FALSE
    /\ UNCHANGED <<storeVars, dashboardVars, sessionStats, scores, pageEvents, sessionVars,
                   websocketRef>>

----------------------------------------------------------------------------
(* The interview page: its counters and the places that score them *)

StatsFields == TallyFields

\* useState's initial sessionStats
NoStats == [f \in StatsFields |-> 0]

Places == {"route", "page", "monitor"}

NoScores == [p \in Places |-> Undefined]

\* the sessionStats after handleNewEvent has taken events that count c
StatsAfter(c) ==
    [f \in StatsFields |->
        IF f = "totalEvents"
        THEN c.lookingAwayCount + c.noFaceCount + c.multipleFaceCount
             + c.unauthorizedObjectCount
        ELSE c[f]]

\* an event as the WebSocket delivers it (DetectionEventData), received at
\* instant t
EventData(type, t) == [event_type |-> type, confidence |-> 90, timestamp |-> t]

\* the events list after handleNewEvent has taken events that count c
EventsAfter(c) ==
    [i \in 1..c.lookingAwayCount |-> EventData("looking_away", 1)]
    \o [i \in 1..c.noFaceCount |-> EventData("no_face", 1)]
    \o [i \in 1..c.multipleFaceCount |-> EventData("multiple_faces", 1)]
    \o [i \in 1..c.unauthorizedObjectCount |-> EventData("unauthorized_object", 1)]

\* a handleNewEvent that would count in totalEvents only the events of the
\* four types it has counters for
HandleNewEventCountsKnown(type) ==
    /\ isSessionActive
    /\ Len(pageEvents) < MaxPageEvents
    /\ pageEvents' = Append(pageEvents, EventData(type, clock))
    /\ sessionStats' =
          [f \in StatsFields |->
              IF \/ f = "totalEvents" /\ type \in EventTypes
                 \/ f = "lookingAwayCount" /\ type = "looking_away"
                 \/ f = "noFaceCount" /\ type = "no_face"
                 \/ f = "unauthorizedObjectCount" /\ type = "unauthorized_object"
                 \/ f = "multipleFaceCount" /\ type = "multiple_faces"
              THEN sessionStats[f] + 1 ELSE sessionStats[f]]
    /\ scores' = NoScores
    /\ Render
    /\ UNCHANGED <<storeVars, dashboardVars, sessionVars, connectionVars>>

\* handleNewEvent: one more event of the type, and the scores computed from
\* the former counters are no longer those of the page
HandleNewEvent(type) ==
    /\ isSessionActive
    /\ Len(pageEvents) < MaxPageEvents
    /\ pageEvents' = Append(pageEvents, EventData(type, clock))
    /\ sessionStats' =
          [f \in StatsFields |->
              IF \/ f = "totalEvents"
                 \/ f = "lookingAwayCount" /\ type = "looking_away"
                 \/ f = "noFaceCount" /\ type = "no_face"
                 \/ f = "unauthorizedObjectCount" /\ type = "unauthorized_object"
                 \/ f = "multipleFaceCount" /\ type = "multiple_faces"
              THEN sessionStats[f] + 1 ELSE sessionStats[f]]
    /\ scores' = NoScores
    /\ Render
    /\ UNCHANGED <<storeVars, dashboardVars, sessionVars, connectionVars>>

\* ws.onmessage with one event: a socket that is not open delivers none
SocketMessage(type) ==
    /\ websocketRef.readyState = "OPEN"
    /\ HandleNewEvent(type)

\* the interval of the duration effect fires: setSessionStats renders the
\* page
DurationTick ==
    /\ isSessionActive
    /\ sessionStartTime # Null
    /\ Render
    /\ UNCHANGED <<storeVars, dashboardVars, sessionStats, scores, pageEvents, sessionVars,
                   connectionVars>>

\* a batch of events that the page's counters count
BatchOf(stats) ==
    [i \in 1..stats.lookingAwayCount |-> Ev("looking_away", 1)]
    \o [i \in 1..stats.noFaceCount |-> Ev("no_face", 1)]
    \o [i \in 1..stats.multipleFaceCount |-> Ev("multiple_faces", 1)]
    \o [i \in 1..stats.unauthorizedObjectCount |-> Ev("unauthorized_object", 1)]

\* the events route scores a batch of these events
RouteScores ==
    /\ scores' = [scores EXCEPT !.route = IntegrityScore(EventCounts(BatchOf(sessionStats)))]
    /\ UNCHANGED <<storeVars, dashboardVars, sessionStats, pageEvents, sessionVars, streamVars>>

\* saveSessionToMongoDB scores the page's sessionStats
PageScores ==
    /\ scores' = [scores EXCEPT !.page = SaveIntegrityScore(sessionStats)]
    /\ UNCHANGED <<storeVars, dashboardVars, sessionStats, pageEvents, sessionVars, streamVars>>

\* ProctorMonitor renders with the page's sessionStats
MonitorScores ==
    /\ scores' = [scores EXCEPT !.monitor = CalculateIntegrityScore(sessionStats)]
    /\ UNCHANGED <<storeVars, dashboardVars, sessionStats, pageEvents, sessionVars, streamVars>>

----------------------------------------------------------------------------
(* The interview page: starting and ending a session *)

\* VideoStream is mounted: its initial state, and its WebSocket effect
\* connects to the session sid
Mount(sid) ==
    /\ websocketRef' = Socket("CONNECTING", sid)
    /\ replaced' = NoneReplaced
    /\ isConnected' = FALSE
    /\ error' = ""

\* VideoStream is unmounted: the cleanup closes its socket, and the
\* callbacks of its sockets set the state of a component that is gone
Unmount ==
    /\ websocketRef' = NoSocket
    /\ replaced' = NoneReplaced
    /\ isConnected' = FALSE
    /\ error' = ""

\* startSession when the backend answers with a session_id: the id is one
\* nothing has used yet; sessionStats and events are not set
PageStartSession ==
    /\ ~isSessionActive
    /\ \E sid \in FreshIds \ {pageSessionId}, t \in clock..MaxTime :
          /\ \A i \in 1..Len(ending) : ending[i].sessionId # sid
          /\ pageSessionId' = sid
          /\ sessionStartTime' = t
          /\ clock' = t
          /\ Mount(sid)
    /\ isSessionActive' = TRUE
    /\ isRecording' = TRUE
    /\ UNCHANGED <<sessions, events, submitting, saving, received, response,
                   sessionStats, scores, pageEvents, ending, redirecting,
                   dashboardVars>>

\* endSession up to the await of the backend's end call: the function of the
\* render that was clicked holds that render's state
EndSession ==
    /\ isSessionActive
    /\ Len(ending) < MaxEnding
    /\ ending' = Append(ending, [sessionId |-> pageSessionId,
                                 sessionStartTime |-> sessionStartTime,
                                 sessionStats |-> sessionStats,
                                 events |-> pageEvents])
    /\ UNCHANGED <<storeVars, dashboardVars, sessionStats, scores, pageEvents, isSessionActive,
                   isRecording, pageSessionId, sessionStartTime, redirecting,
                   streamVars>>

\* sessionData of saveSessionToMongoDB, built at instant t from the state the
\* function holds (duration: the seconds between start and t)
SessionDataOf(page, t) ==
    [sessionId |-> page.sessionId,
     candidateName |-> <<"A">>,
     startTime |-> page.sessionStartTime,
     endTime |-> t,
     duration |-> t - page.sessionStartTime,
     totalEvents |-> page.sessionStats.totalEvents,
     lookingAwayCount |-> page.sessionStats.lookingAwayCount,
     noFaceCount |-> page.sessionStats.noFaceCount,
     multipleFaceCount |-> page.sessionStats.multipleFaceCount,
     unauthorizedObjectCount |-> page.sessionStats.unauthorizedObjectCount,
     integrityScore |-> SaveIntegrityScore(page.sessionStats),
     status |-> "completed",
     events |-> [i \in 1..Len(page.events) |->
                    [eventType |-> page.events[i].event_type,
                     confidence |-> page.events[i].confidence,
                     timestamp |-> ToDate(page.events[i].timestamp),
                     sessionId |-> page.sessionId]]]

\* what comes of the backend's end call: it answers with JSON, it answers
\* with a body response.json() cannot parse, or fetch throws
BackendAnswers == {"ok", "unparsable", "failed"}

\* an endSession whose catch block would leave the session without saving
EndSessionSaveTryOnly(i, answer) ==
    /\ Receive
    /\ InFlight < MaxInFlight
    /\ \E t \in clock..MaxTime :
          /\ clock' = t
          /\ saving' = IF answer = "ok"
                       THEN Append(saving,
                               [body |-> SessionDataOf(ending[i], t),
                                existing |-> Exists(ending[i].sessionId)])
                       ELSE saving
    /\ ending' = Remove(ending, i)
    /\ isSessionActive' = FALSE
    /\ isRecording' = FALSE
    /\ Unmount
    /\ redirecting' = (redirecting \/ answer = "ok")
    /\ UNCHANGED <<sessions, events, submitting, response, sessionStats, scores,
                   pageEvents, pageSessionId, sessionStartTime, dashboardVars>>

\* the rest of endSession: the backend has answered or the call has thrown;
\* either way saveSessionToMongoDB posts the session to the save branch,
\* which takes it up to its findOne, and the page leaves the session; only
\* the try block sets the timeout that leaves for /dashboard
EndSessionSave(i, answer) ==
    /\ Receive
    /\ InFlight < MaxInFlight
    /\ \E t \in clock..MaxTime :
          /\ clock' = t
          /\ saving' = Append(saving,
                [body |-> SessionDataOf(ending[i], t),
                 existing |-> Exists(ending[i].sessionId)])
    /\ ending' = Remove(ending, i)
    /\ isSessionActive' = FALSE
    /\ isRecording' = FALSE
    /\ Unmount
    /\ redirecting' = (redirecting \/ answer = "ok")
    /\ UNCHANGED <<sessions, events, submitting, response, sessionStats, scores,
                   pageEvents, pageSessionId, sessionStartTime, dashboardVars>>

\* the timeout fires: the browser leaves the page, and a later visit is a
\* page with its initial state
Redirect ==
    /\ redirecting
    /\ redirecting' = FALSE
    /\ isSessionActive' = FALSE
    /\ isRecording' = FALSE
    /\ Unmount
    /\ pageSessionId' = ""
    /\ sessionStartTime' = Null
    /\ sessionStats' = NoStats
    /\ pageEvents' = <<>>
    /\ ending' = <<>>
    /\ UNCHANGED <<storeVars, dashboardVars, scores>>

----------------------------------------------------------------------------
(* The dashboard page: the sessions of the backend and of the store *)

\* a session as the backend's /api/sessions reports it
BackendSession(sid) ==
    [session_id |-> sid, candidate_name |-> <<"A">>, start_time |-> 1,
     status |-> "completed", duration |-> 0, event_count |-> 0]

\* what the fetch of the backend's list settles to: rejected, fulfilled
\* with a status that is not ok, fulfilled and ok with a body json() cannot
\* parse, or fulfilled and ok with sessions
BackendResponses ==
    [outcome : {"rejected", "not_ok", "unparsable"}, sessions : {<<>>}]
    \cup [outcome : {"ok"},
          sessions : {<<>>,
                      <<BackendSession("s1")>>,
                      <<BackendSession("s2"), BackendSession("s1")>>,
                      <<BackendSession("b1"), BackendSession("b1")>>}]

\* what the fetch of /api/sessions settles to: rejected, fulfilled with a
\* status that is not ok, or fulfilled with the answer of the route
MongoOutcomes == {"rejected", "not_ok", "ok"}

\* a session of the store in the backend's format
ConvertSession(session) ==
    [session_id |-> session.sessionId,
     candidate_name |-> session.candidateName,
     start_time |-> session.startTime,
     status |-> session.status,
     duration |-> session.duration,
     event_count |-> session.totalEvents,
     source |-> "mongodb"]

\* allSessions: the backend's sessions, then the store's
AllSessions(backend, mongo, mongoSessions) ==
    (IF backend.outcome = "ok" THEN backend.sessions ELSE <<>>)
    \o (IF mongo = "ok"
        THEN [i \in 1..Len(mongoSessions) |-> ConvertSession(mongoSessions[i])]
        ELSE <<>>)

\* uniqueSessions: the reduce that keeps the first session of each session_id
UniqueSessions(allSessions) ==
    LET acc[i \in 0..Len(allSessions)] ==
            IF i = 0 THEN <<>>
            ELSE IF \E j \in 1..Len(acc[i - 1]) :
                       acc[i - 1][j].session_id = allSessions[i].session_id
                 THEN acc[i - 1]
                 ELSE Append(acc[i - 1], allSessions[i])
    IN  acc[Len(allSessions)]

NoSessionsFound ==
    "No sessions found. Start a new session or check if services are running."

FailedToFetch ==
    "Failed to fetch sessions. Please ensure the backend is running and MongoDB is connected."

\* fetchSessions once both fetches have settled: the answer of /api/sessions
\* is the one the list route gave last; a body that json() cannot parse
\* throws into the catch block, which sets no sessions
FetchSessions(backend, mongo) ==
    /\ mongo = "ok" => response.route = "list" /\ response.code = 200
    /\ IF backend.outcome = "unparsable"
       THEN /\ dashboardError' = FailedToFetch
            /\ UNCHANGED dashboardSessions
       ELSE LET allSessions == AllSessions(backend, mongo, response.body)
            IN  /\ dashboardSessions' = UniqueSessions(allSessions)
                /\ dashboardError' = IF Len(allSessions) = 0
                                    THEN NoSessionsFound ELSE dashboardError
    /\ loading' = FALSE
    /\ UNCHANGED <<storeVars, sessionStats, scores, pageEvents, sessionVars,
                   streamVars>>

----------------------------------------------------------------------------
(* Specification *)

Init ==
    /\ sessions = <<>>
    /\ events = <<>>
    /\ submitting = <<>>
    /\ saving = <<>>
    /\ clock = 1
    /\ received = 0
    /\ response = NoResponse
    /\ sessionStats = NoStats
    /\ scores = NoScores
    /\ pageEvents = <<>>
    /\ isSessionActive = FALSE
    /\ pageSessionId = ""
    /\ sessionStartTime = Null
    /\ ending = <<>>
    /\ redirecting = FALSE
    /\ isRecording = FALSE
    /\ websocketRef = NoSocket
    /\ replaced = NoneReplaced
    /\ isConnected = FALSE
    /\ error = ""
    /\ dashboardSessions = <<>>
    /\ dashboardError = ""
    /\ loading = TRUE

Next ==
    \/ \E requestData \in StartBodies : StartSession(requestData)
    \/ \E body \in SaveBodies : SaveFind(body)
    \/ \E i \in 1..Len(saving) : SaveWrite(i)
    \/ \E sid \in SessionIds, json \in SubmitRequests : SubmitInsert(sid, json)
    \/ \E i \in 1..Len(submitting) : SubmitUpdate(i)
    \/ \E sid \in SessionIds, updates \in PatchBodies : Patch(sid, updates)
    \/ \E sid \in SessionIds : GetSession(sid)
    \/ ListSessions
    \/ \E sid \in SessionIds : GetEvents(sid)

Spec == Init /\ [][Next]_vars

\* start and submitEvents only: sessions that nothing but the events route
\* has written to since they were created
NextIngest ==
    \/ \E requestData \in StartBodies : StartSession(requestData)
    \/ \E sid \in SessionIds, json \in SubmitRequests : SubmitInsert(sid, json)
    \/ \E i \in 1..Len(submitting) : SubmitUpdate(i)

SpecIngest == Init /\ [][NextIngest]_vars

\* start and submitEvents only, one request at a time
NextIngestSerial ==
    \/ InFlight = 0 /\ \E requestData \in StartBodies : StartSession(requestData)
    \/ InFlight = 0 /\ \E sid \in SessionIds, json \in SubmitRequests : SubmitInsert(sid, json)
    \/ \E i \in 1..Len(submitting) : SubmitUpdate(i)

SpecIngestSerial == Init /\ [][NextIngestSerial]_vars

\* start and submitEvents with a store that can fail under the events route
NextStoreFaults ==
    \/ \E requestData \in StartBodies : StartSession(requestData)
    \/ \E sid \in SessionIds, json \in SubmitRequests : SubmitInsert(sid, json)
    \/ \E i \in 1..Len(submitting) : SubmitUpdate(i)
    \/ \E sid \in SessionIds, body \in SubmitBodies : SubmitInsertFails(sid, body)
    \/ \E i \in 1..Len(submitting) : SubmitUpdateFails(i)

SpecStoreFaults == Init /\ [][NextStoreFaults]_vars

\* start and end/finalize only
NextSave ==
    \/ \E requestData \in StartBodies : StartSession(requestData)
    \/ \E body \in SaveBodies : SaveFind(body)
    \/ \E i \in 1..Len(saving) : SaveWrite(i)

SpecSave == Init /\ [][NextSave]_vars

\* start and patch only
NextPatch ==
    \/ \E requestData \in StartBodies : StartSession(requestData)
    \/ \E sid \in SessionIds, updates \in PatchBodies : Patch(sid, updates)

SpecPatch == Init /\ [][NextPatch]_vars

\* start, submitEvents and the routes that read, one request at a time
NextRead ==
    \/ InFlight = 0 /\ \E requestData \in StartBodies : StartSession(requestData)
    \/ InFlight = 0 /\ \E sid \in SessionIds, json \in SubmitRequests : SubmitInsert(sid, json)
    \/ \E i \in 1..Len(submitting) : SubmitUpdate(i)
    \/ InFlight = 0 /\ \E sid \in SessionIds : GetSession(sid)
    \/ InFlight = 0 /\ ListSessions
    \/ InFlight = 0 /\ \E sid \in SessionIds : GetEvents(sid)

SpecRead == Init /\ [][NextRead]_vars

\* the interview page and the save branch it posts to, with End Session
\* clicked once
NextPage ==
    \/ PageStartSession
    \/ SocketOpen
    \/ \E type \in EventTypes : SocketMessage(type)
    \/ ending = <<>> /\ EndSession
    \/ \E i \in 1..Len(ending), answer \in BackendAnswers : EndSessionSave(i, answer)
    \/ Redirect
    \/ \E i \in 1..Len(saving) : SaveWrite(i)

SpecPage == Init /\ [][NextPage]_vars

\* sessions that start and end, with End Session clicked again while the
\* backend's answer is awaited
NextEnd ==
    \/ PageStartSession
    \/ EndSession
    \/ \E i \in 1..Len(ending), answer \in BackendAnswers : EndSessionSave(i, answer)
    \/ \E i \in 1..Len(saving) : SaveWrite(i)

SpecEnd == Init /\ [][NextEnd]_vars

\* the dashboard page over stores of sessions the create branch has made
NextDashboard ==
    \/ \E requestData \in StartBodies : StartSession(requestData)
    \/ ListSessions
    \/ \E backend \in BackendResponses, mongo \in MongoOutcomes :
          FetchSessions(backend, mongo)

SpecDashboard == Init /\ [][NextDashboard]_vars

\* the types of the events the producer sends: the four the page counts
\* and one it does not
SentTypes == EventTypes \cup {"talking"}

\* the interview page with VideoStream and its sockets
NextStream ==
    \/ PageStartSession
    \/ DurationTick
    \/ SocketOpen
    \/ \E type \in SentTypes : SocketMessage(type)
    \/ SocketClose
    \/ SocketError
    \/ ReplacedClose
    \/ ReplacedError

SpecStream == Init /\ [][NextStream]_vars

\* the same, where the interval of the duration effect keeps firing, the
\* close and error events of closed sockets are delivered, and the producer
\* does not refuse every connection
SpecStreamLive ==
    /\ SpecStream
    /\ WF_vars(DurationTick)
    /\ WF_vars(ReplacedClose)
    /\ WF_vars(ReplacedError)
    /\ SF_vars(SocketOpen)

\* a store of n sessions created by the create branch, of which the first
\* or the last old ones started at the first instant and the others at the
\* last
ListedStore(n, old, oldFirst) ==
    [i \in 1..n |->
        NewSession("session_" \o ToString(i), <<"A">>,
                   IF (oldFirst /\ i <= old) \/ (~oldFirst /\ i > n - old)
                   THEN 1 ELSE MaxTime)]

\* GET /api/sessions over stores of up to MaxListed sessions
InitList ==
    /\ \E n \in 0..MaxListed, old \in 0..MaxOld, oldFirst \in BOOLEAN :
          /\ old <= n
          /\ sessions = ListedStore(n, old, oldFirst)
    /\ events = <<>>
    /\ submitting = <<>>
    /\ saving = <<>>
    /\ clock = MaxTime
    /\ received = 0
    /\ response = NoResponse
    /\ sessionStats = NoStats
    /\ scores = NoScores
    /\ pageEvents = <<>>
    /\ isSessionActive = FALSE
    /\ pageSessionId = ""
    /\ sessionStartTime = Null
    /\ ending = <<>>
    /\ redirecting = FALSE
    /\ isRecording = FALSE
    /\ websocketRef = NoSocket
    /\ replaced = NoneReplaced
    /\ isConnected = FALSE
    /\ error = ""
    /\ dashboardSessions = <<>>
    /\ dashboardError = ""
    /\ loading = TRUE

NextList == ListSessions

SpecList == InitList /\ [][NextList]_vars

\* every route, one request at a time: a request is taken up only when none
\* is suspended at an await
NextSerial ==
    \/ InFlight = 0 /\ \E requestData \in StartBodies : StartSession(requestData)
    \/ InFlight = 0 /\ \E body \in SaveBodies : SaveFind(body)
    \/ \E i \in 1..Len(saving) : SaveWrite(i)
    \/ InFlight = 0 /\ \E sid \in SessionIds, json \in SubmitRequests : SubmitInsert(sid, json)
    \/ \E i \in 1..Len(submitting) : SubmitUpdate(i)
    \/ InFlight = 0 /\ \E sid \in SessionIds, updates \in PatchBodies : Patch(sid, updates)
    \/ InFlight = 0 /\ \E sid \in SessionIds : GetSession(sid)
    \/ InFlight = 0 /\ ListSessions
    \/ InFlight = 0 /\ \E sid \in SessionIds : GetEvents(sid)

SpecSerial == Init /\ [][NextSerial]_vars

\* the three computations of the score over every sessionStats within the
\* bound
InitScore ==
    /\ sessions = <<>>
    /\ events = <<>>
    /\ submitting = <<>>
    /\ saving = <<>>
    /\ clock = 1
    /\ received = 0
    /\ response = NoResponse
    /\ \E c \in [CounterFields -> 0..MaxCount] :
          /\ sessionStats = StatsAfter(c)
          /\ pageEvents = EventsAfter(c)
    /\ scores = NoScores
    /\ isSessionActive = TRUE
    /\ pageSessionId = "s1"
    /\ sessionStartTime = 1
    /\ ending = <<>>
    /\ redirecting = FALSE
    /\ isRecording = TRUE
    /\ websocketRef = Socket("OPEN", "s1")
    /\ replaced = NoneReplaced
    /\ isConnected = TRUE
    /\ error = ""
    /\ dashboardSessions = <<>>
    /\ dashboardError = ""
    /\ loading = TRUE

NextScore ==
    \/ \E type \in EventTypes : HandleNewEvent(type)
    \/ RouteScores
    \/ PageScores
    \/ MonitorScores

SpecScore == InitScore /\ [][NextScore]_vars

----------------------------------------------------------------------------
(* Vocabulary of the properties *)

Docs == 1..Len(sessions)

\* the four category counters of a document
Counts(doc) == [f \in CounterFields |-> doc[f]]

\* the counter an event type is counted in
CounterOf(type) ==
    CASE type = "looking_away" -> "lookingAwayCount"
      [] type = "no_face" -> "noFaceCount"
      [] type = "multiple_faces" -> "multipleFaceCount"
      [] type = "unauthorized_object" -> "unauthorizedObjectCount"
      [] OTHER -> "none"

\* does an event count towards tally field f
CountsAs(ev, f) == f = "totalEvents" \/ CounterOf(ev.eventType) = f

\* events of the log that belong to sid and count towards f
Logged(sid, f) ==
    Cardinality({i \in 1..Len(events) :
                    events[i].sessionId = sid /\ CountsAs(events[i], f)})

\* events of bodies in flight for sid, inserted and not yet counted
Pending(sid, f) ==
    LET n[i \in 0..Len(submitting)] ==
            IF i = 0 THEN 0
            ELSE n[i - 1]
                 + IF submitting[i].sessionId = sid
                   THEN Cardinality({j \in 1..Len(submitting[i].body) :
                                        CountsAs(submitting[i].body[j], f)})
                   ELSE 0
    IN  n[Len(submitting)]

\* the identity of an event: sessionId, timestamp, eventType, confidence
Identity(ev) == <<ev.sessionId, ev.timestamp, ev.eventType, ev.confidence>>

Completed(doc) == doc.status = "completed"

----------------------------------------------------------------------------
(* Properties *)

\* C1: after any sequence of start and submitEvents operations (none still in
\* flight), every stored session's integrityScore is the score of that
\* record's cumulative counters.
C1_ScoreOfCumulativeCounters ==
    submitting = <<>> =>
       \A k \in Docs : sessions[k].integrityScore = IntegrityScore(Counts(sessions[k]))

\* C2: an identical event (same sessionId, timestamp, eventType, confidence)
\* submitted twice is stored once and counted once: the log holds no two events
\* of one identity, and once no batch is in flight totalEvents is the number
\* of distinct identities logged for the session.
C2_IdenticalEventCountedOnce ==
    \A k \in Docs :
       LET log == {i \in 1..Len(events) : events[i].sessionId = sessions[k].sessionId}
       IN  /\ \A i, j \in log : Identity(events[i]) = Identity(events[j]) => i = j
           /\ submitting = <<>> =>
                 sessions[k].totalEvents = Cardinality({Identity(events[i]) : i \in log})

\* C3: a submitEvents call on a completed session is accepted and its events
\* are logged, but the update step leaves the score and all counters of every
\* completed session as they were.
C3_CompletedSessionNotRecounted ==
    [][\A i \in 1..Len(submitting) :
          SubmitUpdate(i) =>
             /\ response'.code = 200
             /\ \A k \in Docs :
                   Completed(sessions[k]) =>
                      /\ Counts(sessions'[k]) = Counts(sessions[k])
                      /\ sessions'[k].totalEvents = sessions[k].totalEvents
                      /\ sessions'[k].integrityScore = sessions[k].integrityScore]_vars

\* C4: under every interleaving of submitEvents requests, each counter of a
\* session plus what the batches still in flight for it are to add equals the
\* number of logged events of that kind: when both of two concurrent batches
\* have completed, the counters are the prior values plus both contributions.
C4_ConcurrentBatchesBothCounted ==
    \A k \in Docs : \A f \in TallyFields :
       sessions[k][f] + Pending(sessions[k].sessionId, f)
          = Logged(sessions[k].sessionId, f)

\* two batches are in flight at once for one stored session
C4_Witness ==
    /\ Len(submitting) = 2
    /\ submitting[1].sessionId = submitting[2].sessionId
    /\ Exists(submitting[1].sessionId)

\* C5: a second end/finalize write for a session that is already completed
\* succeeds and leaves the stored endTime and duration as the first call set
\* them.
C5_SecondEndKeepsEndTime ==
    [][\A i \in 1..Len(saving) :
          (SaveWrite(i) /\ Exists(saving[i].body.sessionId)) =>
             /\ response'.code = 200
             /\ LET k == FirstMatch(saving[i].body.sessionId)
                IN  Completed(sessions[k]) =>
                       /\ Get(sessions'[k], "endTime") = Get(sessions[k], "endTime")
                       /\ sessions'[k].duration = sessions[k].duration]_vars

\* C6: the store holds at most one session record per sessionId, also when
\* two end/finalize requests for a sessionId without a record run concurrently.
C6_OneRecordPerSessionId ==
    \A j, k \in Docs : sessions[j].sessionId = sessions[k].sessionId => j = k

\* C7: a checkpoint, finalize or patch write never loses the delta of a
\* counted batch: a counter that the logged events of the session account for
\* is not lowered by the write.
C7_WriteKeepsBatchDelta ==
    [][(\/ \E i \in 1..Len(saving) : SaveWrite(i)
        \/ \E sid \in SessionIds, updates \in PatchBodies : Patch(sid, updates)) =>
          \A k \in Docs : \A f \in TallyFields :
             (/\ sessions[k][f] > 0
              /\ sessions[k][f] + Pending(sessions[k].sessionId, f)
                    = Logged(sessions[k].sessionId, f)) =>
                sessions'[k][f] >= sessions[k][f]]_vars

\* C8: in every stored session record, status is completed if and only if
\* endTime is present (a valid, non-null time).
C8_CompletedIffEndTime ==
    \A k \in Docs : Completed(sessions[k]) <=> Get(sessions[k], "endTime") \in Times

\* C9: once a stored session is completed, no operation makes it active again.
C9_EndIsOneWay ==
    [][\A k \in Docs : Completed(sessions[k]) => Completed(sessions'[k])]_vars

\* C10: while a stored session is active, no operation lowers any of its four
\* violation counters.
C10_ActiveCountersNeverDecrease ==
    [][\A k \in Docs : \A f \in CounterFields :
          sessions[k].status = "active" => sessions'[k][f] >= sessions[k][f]]_vars

\* C11: the sessionId of a stored session record never changes once the record
\* exists, whatever the operation, a patch naming another sessionId included.
C11_SessionIdImmutable ==
    [][\A k \in Docs : sessions'[k].sessionId = sessions[k].sessionId]_vars

\* the record a session payload describes: every session field as the payload
\* gives it, the two dates as Dates
FinalRecord(body) ==
    [f \in SessionFields |->
        IF f \in {"startTime", "endTime"} THEN ToDate(Get(body, f)) ELSE body[f]]

\* C12: a finalize write leaves the same stored record, the one the payload
\* describes, whether it updated the existing record of the sessionId or
\* inserted a new one.
C12_FinalizePathsConverge ==
    [][\A i \in 1..Len(saving) :
          SaveWrite(i) =>
             IF saving[i].existing
             THEN sessions'[FirstMatch(saving[i].body.sessionId)]
                     = FinalRecord(saving[i].body)
             ELSE sessions'[Len(sessions) + 1] = FinalRecord(saving[i].body)]_vars

\* a record that a start created has been finalized by the update path: the
\* clock has moved, so a start succeeded, and its record is the only one
C12_Witness ==
    /\ clock = 2
    /\ Len(sessions) = 1
    /\ saving = <<>>
    /\ response.route = "save"
    /\ sessions[1] = FinalRecord(PageSession(sessions[1].sessionId,
                                             [ZeroCounts EXCEPT !.lookingAwayCount = 1], 2))

\* C13: submitEvents is atomic under store failure: the events of a batch are
\* in the log only together with its counter update, so for every stored
\* session the logged events are those counted in totalEvents and those of
\* requests still running.
C13_SubmitAtomicUnderFailure ==
    \A k \in Docs :
       Logged(sessions[k].sessionId, "totalEvents")
          = sessions[k].totalEvents + Pending(sessions[k].sessionId, "totalEvents")

\* C14: a submitEvents for a sessionId without a stored session stores no
\* event: every logged event's sessionId is that of a stored session record.
C14_EventsReferenceStoredSession ==
    \A i \in 1..Len(events) : Exists(events[i].sessionId)

\* the validation of an event: a known type and a confidence within [0, 1]
ValidEvent(ev) == ev.eventType \in EventTypes /\ ev.confidence \in 0..100

ValidBatch(body) == \A j \in 1..Len(body) : ValidEvent(body[j])

\* C15: a non-empty batch with an event that fails validation fails as a whole
\* with an invalid-input answer: for a stored session the route stores none of its events, and no
\* update step of such a batch changes a session.
C15_InvalidBatchRejectedWhole ==
    [][/\ \A sid \in SessionIds, body \in SubmitBodies :
            (SubmitInsert(sid, JsonArray(body)) /\ Exists(sid) /\ Len(body) > 0 /\ ~ValidBatch(body)) =>
               (events' = events /\ response'.code = 400)
       /\ \A i \in 1..Len(submitting) :
            (SubmitUpdate(i) /\ ~ValidBatch(submitting[i].body)) =>
               sessions' = sessions]_vars

\* C16: an event whose eventType is outside the four known types is rejected:
\* the log of a stored session holds no such event, and the session's
\* totalEvents counts none.
C16_UnknownEventTypeRejected ==
    \A k \in Docs :
       /\ \A i \in 1..Len(events) :
             events[i].sessionId = sessions[k].sessionId =>
                events[i].eventType \in EventTypes
       /\ sessions[k].totalEvents
             <= Cardinality({i \in 1..Len(events) :
                               /\ events[i].sessionId = sessions[k].sessionId
                               /\ events[i].eventType \in EventTypes})

\* C17: for all non-negative counters the integrity score is
\* max(0, 100 - (2*lookingAway + 3*noFace + 10*multipleFace + 15*unauthorizedObject)),
\* and the events route, the page's save and the monitor compute the same
\* value from the same counters.
C17_ScoreFormulaInEveryPlace ==
    \A p \in Places :
       scores[p] # Undefined =>
          /\ scores[p] =
                LET d == 2 * sessionStats.lookingAwayCount
                         + 3 * sessionStats.noFaceCount
                         + 10 * sessionStats.multipleFaceCount
                         + 15 * sessionStats.unauthorizedObjectCount
                IN  IF 100 - d > 0 THEN 100 - d ELSE 0
          /\ \A q \in Places : scores[q] # Undefined => scores[q] = scores[p]

\* all three places have scored counters whose deductions exceed 100
C17_Witness ==
    /\ \A p \in Places : scores[p] = 0
    /\ Deductions(sessionStats) > 100

\* C18: the monitor's score is a function of the counters alone, lies within
\* 0..100, and does not increase when any one counter grows by one.
C18_ScoreBoundedAndMonotone ==
    scores.monitor # Undefined =>
       /\ scores.monitor = CalculateIntegrityScore(sessionStats)
       /\ scores.monitor \in 0..100
       /\ \A f \in CounterFields :
             CalculateIntegrityScore([sessionStats EXCEPT ![f] = @ + 1]) <= scores.monitor

\* the monitor alone has scored counters whose deductions exceed 100: the
\* score is at its floor and a further event cannot lower it
C18_Witness ==
    /\ scores.monitor = 0
    /\ scores.route = Undefined
    /\ scores.page = Undefined
    /\ 100 - Deductions(sessionStats) < 0

\* the event types a session's log holds, in the order of the log
LogTypes(sid) ==
    LET own == SelectSeq(events, LAMBDA ev : ev.sessionId = sid)
    IN  [i \in 1..Len(own) |-> own[i].eventType]

\* C19: scenario B: a session that has taken one looking_away event (score 98)
\* and then a batch of two no_face and one multiple_faces events has the score
\* 82, in the response of that batch and in the stored record.
C19_ScenarioB ==
    \A k \in Docs :
       (/\ submitting = <<>>
        /\ LogTypes(sessions[k].sessionId)
              = <<"looking_away", "no_face", "no_face", "multiple_faces">>
        /\ sessions[k].totalEvents = 4
        /\ response.route = "submit" /\ response.code = 200) =>
          (sessions[k].integrityScore = 82 /\ response.integrityScore = 82)

\* C20: scenario A: a fresh session that has taken a single looking_away event
\* of confidence 0.9 has integrityScore 98, lookingAwayCount 1 and the other
\* three counters 0, and the response of the batch carries 98.
C20_ScenarioA ==
    \A k \in Docs :
       (/\ submitting = <<>>
        /\ LogTypes(sessions[k].sessionId) = <<"looking_away">>
        /\ sessions[k].totalEvents = 1
        /\ response.route = "submit" /\ response.code = 200
        /\ response.sessionId = sessions[k].sessionId) =>
          /\ sessions[k].integrityScore = 98
          /\ response.integrityScore = 98
          /\ Counts(sessions[k]) = [ZeroCounts EXCEPT !.lookingAwayCount = 1]

\* the session has taken its first event, a looking_away of confidence 0.9
C20_Witness ==
    /\ Len(sessions) = 1 /\ Len(events) = 1 /\ submitting = <<>>
    /\ events[1].sessionId = sessions[1].sessionId
    /\ events[1].eventType = "looking_away" /\ events[1].confidence = 90
    /\ sessions[1].totalEvents = 1
    /\ response = Respond("submit", sessions[1].sessionId, 200, 98)

\* C21: a successful start adds one session record with a sessionId no stored
\* record has, status active, no endTime, duration 0, totalEvents 0, the four
\* counters 0, integrityScore 100 and no events, and leaves every record that
\* was stored as it was.
C21_StartCreatesFreshRecord ==
    [][\A requestData \in StartBodies :
          (StartSession(requestData) /\ response'.code = 200) =>
             /\ Len(sessions') = Len(sessions) + 1
             /\ \A k \in Docs : sessions'[k] = sessions[k]
             /\ LET doc == sessions'[Len(sessions')]
                IN  /\ \A k \in Docs : sessions[k].sessionId # doc.sessionId
                    /\ doc.sessionId = response'.sessionId
                    /\ doc.status = "active"
                    /\ "endTime" \notin DOMAIN doc
                    /\ doc.duration = 0
                    /\ doc.totalEvents = 0
                    /\ Counts(doc) = ZeroCounts
                    /\ doc.integrityScore = 100
                    /\ doc.events = <<>>]_vars

\* a session has been started while the store held a completed one
C21_Witness ==
    /\ Len(sessions) = 2
    /\ sessions[1].status = "completed"
    /\ sessions[2] = NewSession(sessions[2].sessionId, <<"A">>, sessions[2].startTime)
    /\ response = Respond("start", sessions[2].sessionId, 200, 0)

\* C22: a start whose candidateName, given as a bare string or as the
\* candidateName field, is empty after trimming is answered with an
\* invalid-input error (400) and creates no session record.
C22_BlankNameRejected ==
    [][\A requestData \in StartBodies :
          (StartSession(requestData) /\ Trim(requestData.candidateName) = <<>>) =>
             (response'.code = 400 /\ sessions' = sessions)]_vars

\* a start with a blank name has been answered while the store held a session
C22_Witness ==
    /\ Len(sessions) = 1
    /\ response = Respond("start", "", 400, 0)

\* C23: a submitEvents whose body is not an array, or is an empty array, is
\* answered with an invalid-input error (400) and touches no collection: no
\* event is stored, no session changes and no update is left to run.
C23_NonArrayOrEmptyRejected ==
    [][\A sid \in SessionIds, json \in SubmitRequests :
          (SubmitInsert(sid, json) /\ (~json.isArray \/ json.value = <<>>)) =>
             /\ response' = Respond("submit", sid, 400, 0)
             /\ events' = events
             /\ sessions' = sessions
             /\ submitting' = submitting]_vars

\* a refused body has been answered for a session that holds an event
C23_Witness ==
    /\ Len(sessions) = 1 /\ Len(events) = 1 /\ submitting = <<>>
    /\ sessions[1].totalEvents = 1
    /\ response = Respond("submit", sessions[1].sessionId, 400, 0)

\* C24: a patch is a merge: every field the stored session has and the
\* partial update does not name, endTime among them, keeps its value.
C24_PatchKeepsUnnamedFields ==
    [][\A sid \in SessionIds, updates \in PatchBodies :
          (Patch(sid, updates) /\ Exists(sid)) =>
             LET k == FirstMatch(sid)
             IN  \A f \in DOMAIN sessions[k] \ DOMAIN updates :
                    Get(sessions'[k], f) = sessions[k][f]]_vars

\* C25: a patch of a sessionId without a stored record is answered with
\* session-not-found (404) and leaves both collections as they were: it
\* creates no session record.
C25_PatchOfUnknownSession ==
    [][\A sid \in SessionIds, updates \in PatchBodies :
          (Patch(sid, updates) /\ ~Exists(sid)) =>
             /\ response' = Respond("patch", sid, 404, 0)
             /\ sessions' = sessions
             /\ events' = events]_vars

\* a patch of a sessionId the store does not hold has been answered while it
\* held another session
C25_Witness ==
    /\ Len(sessions) = 1
    /\ response.route = "patch" /\ response.code = 404
    /\ response.sessionId # sessions[1].sessionId

\* C26: a get of a sessionId without a stored record is answered with
\* session-not-found (404), a get of a stored sessionId with that session's
\* record; neither changes a collection.
C26_GetSession ==
    [][\A sid \in SessionIds :
          GetSession(sid) =>
             /\ sessions' = sessions
             /\ events' = events
             /\ IF \E k \in Docs : sessions[k].sessionId = sid
                THEN /\ response'.code = 200
                     /\ Len(response'.body) = 1
                     /\ response'.body[1].sessionId = sid
                     /\ \E k \in Docs : sessions[k] = response'.body[1]
                ELSE /\ response'.code = 404
                     /\ response'.body = <<>>]_vars

\* a get has returned the second of two stored sessions
C26_Witness ==
    /\ Len(sessions) = 2
    /\ response.route = "get" /\ response.code = 200
    /\ response.body = <<sessions[2]>>

\* C27: every event that is stored is stored by a request of the events
\* route and carries the sessionId that request addresses, also when the
\* event of the body names another sessionId, and no step of any route
\* changes or removes a stored event.
C27_EventBelongsToAddressedSession ==
    [][/\ events' # events =>
             LET request == submitting'[Len(submitting')]
             IN  /\ submitting' = Append(submitting, request)
                 /\ Len(events') = Len(events) + Len(request.body)
                 /\ \A i \in (Len(events) + 1)..Len(events') :
                       events'[i].sessionId = request.sessionId
       /\ Len(events') >= Len(events)
       /\ \A i \in 1..Len(events) : events'[i] = events[i]]_vars

\* a request that addresses the stored session s1 has inserted an event whose
\* body names s2
C27_Witness ==
    /\ Exists("s1")
    /\ Len(submitting) = 1
    /\ submitting[1].sessionId = "s1"
    /\ "sessionId" \in DOMAIN submitting[1].body[1]
    /\ submitting[1].body[1].sessionId = "s2"
    /\ Len(events) = 1
    /\ events[1].sessionId = "s1"

\* C28: a session started on the interview page after an earlier one ended in
\* the same page begins with sessionStats all zero and an empty events list,
\* and no saved session holds an event from before its start.
C28_RestartBeginsEmpty ==
    [][/\ (~isSessionActive /\ isSessionActive') =>
             (sessionStats' = NoStats /\ pageEvents' = <<>>)
       /\ \A k \in 1..Len(sessions') :
             \A j \in 1..Len(sessions'[k].events) :
                sessions'[k].events[j].timestamp >= sessions'[k].startTime]_vars

\* C29: list returns at most 50 sessions, latest startTime first, each a
\* stored session and none twice; it returns all of them when the store holds
\* no more than 50, and otherwise no session left out started later than a
\* session returned.
C29_ListLatestFifty ==
    [][ListSessions =>
          LET page == response'.body
              n == Len(page)
          IN  /\ n <= 50
              /\ n = IF Len(sessions) <= 50 THEN Len(sessions) ELSE 50
              /\ \A p \in 1..(n - 1) : page[p].startTime >= page[p + 1].startTime
              /\ \A p \in 1..n : \E k \in Docs : sessions[k] = page[p]
              /\ \A p, q \in 1..n : p # q => page[p] # page[q]
              /\ \A k \in Docs :
                    (\A p \in 1..n : page[p] # sessions[k]) =>
                       \A p \in 1..n : sessions[k].startTime <= page[p].startTime]_vars

\* a store of more than 50 sessions has been listed, and the page leaves out
\* the sessions that started first although they were inserted last
C29_Witness ==
    /\ Len(sessions) = 52
    /\ sessions[52].startTime = 1
    /\ sessions[51].startTime = 1
    /\ sessions[50].startTime = MaxTime
    /\ response.route = "list"
    /\ Len(response.body) = 50

\* C30: getEvents of a sessionId returns the stored events of that sessionId,
\* all of them and each once, latest timestamp first, and no event of another
\* session; it changes no collection.
C30_GetEventsOfSession ==
    [][\A sid \in SessionIds :
          GetEvents(sid) =>
             LET page == response'.body
                 n == Len(page)
             IN  /\ events' = events /\ sessions' = sessions
                 /\ \A p \in 1..n : page[p].sessionId = sid
                 /\ \A p \in 1..n : \E i \in 1..Len(events) : events[i] = page[p]
                 /\ \A i \in 1..Len(events) :
                       events[i].sessionId = sid =>
                          Cardinality({p \in 1..n : page[p] = events[i]}) = 1
                 /\ \A p \in 1..(n - 1) : page[p].timestamp >= page[p + 1].timestamp]_vars

\* the two events of s1 have been returned latest first, the reverse of the
\* order they were stored in
C30_Witness ==
    /\ Len(events) = 2
    /\ events[1].sessionId = "s1" /\ events[1].timestamp = 1
    /\ events[2].sessionId = "s1" /\ events[2].timestamp = 2
    /\ response.route = "events" /\ response.sessionId = "s1"
    /\ response.body = <<events[2], events[1]>>

----------------------------------------------------------------------------
(* C31..C38 *)

\* a close or error event of a socket, of the one in websocketRef or of one
\* the cleanup has closed
CloseOrError == SocketClose \/ SocketError \/ ReplacedClose \/ ReplacedError

\* C31: a WebSocket close or error changes only isConnected and error (and
\* the socket itself): isSessionActive, isRecording, sessionId, the event
\* list, the counters and the rest of the page stay as they were.
C31_CloseOrErrorLeavesSession ==
    [][CloseOrError =>
          UNCHANGED <<isSessionActive, isRecording, pageSessionId, pageEvents,
                      sessionStats, sessionStartTime, ending, redirecting,
                      scores, storeVars>>]_vars

\* a recording session with an event listed whose socket has failed
C31_Witness ==
    /\ isSessionActive
    /\ isRecording
    /\ pageEvents # <<>>
    /\ websocketRef.readyState = "CLOSED"
    /\ error = ConnectionLost
    /\ ~isConnected

\* C32: when the socket has closed while the session is recording, a new
\* socket to the same sessionId is eventually open and isConnected is true
\* again, the session still being the same.
C32_ClosedSocketIsReplaced ==
    \A sid \in SessionIds :
        (isRecording /\ pageSessionId = sid /\ websocketRef.readyState = "CLOSED")
        ~> (/\ isRecording
            /\ pageSessionId = sid
            /\ websocketRef = Socket("OPEN", sid)
            /\ isConnected)

\* the socket of a recording session has closed after an event came
C32_Witness ==
    /\ isRecording
    /\ websocketRef = Socket("CLOSED", pageSessionId)
    /\ ~isConnected
    /\ error = ""
    /\ pageEvents # <<>>

\* endSession goes on after the backend's end call and posts the session
EndSessionGoesOn == \E i \in 1..Len(ending), answer \in BackendAnswers : EndSessionSave(i, answer)

\* C33: the record that endSession posts holds every event the page has
\* handled when the request is sent, those that came while the backend's
\* end call was awaited too, and its counters are the page's counters.
C33_SavedRecordHasEveryEvent ==
    [][EndSessionGoesOn =>
          LET body == saving'[Len(saving')].body
          IN  /\ Len(body.events) = Len(pageEvents)
              /\ \A i \in 1..Len(pageEvents) :
                     body.events[i].eventType = pageEvents[i].event_type
              /\ \A f \in StatsFields : body[f] = sessionStats[f]]_vars

\* C34: the callbacks of a socket that has been replaced never change the
\* connection state of the live one: while the socket in websocketRef is
\* open, a close or error event of a replaced socket leaves isConnected and
\* error as they were.
C34_ReplacedSocketIsSilent ==
    [][(ReplacedClose \/ ReplacedError) /\ websocketRef.readyState = "OPEN"
          => UNCHANGED connectionVars]_vars

\* C35: an endSession call makes one save attempt, no more and no fewer,
\* and leaves isSessionActive and isRecording false, whatever comes of the
\* backend's end call; nothing else on the page posts a save.
C35_EndSessionSavesOnce ==
    [][/\ EndSessionGoesOn =>
             /\ Len(saving') = Len(saving) + 1
             /\ received' = received + 1
             /\ Len(ending') = Len(ending) - 1
             /\ ~isSessionActive'
             /\ ~isRecording'
       /\ received' # received => EndSessionGoesOn]_vars

\* the session was left through the catch block: its save is posted and no
\* redirect is set
C35_Witness ==
    /\ ~isSessionActive
    /\ ~isRecording
    /\ ~redirecting
    /\ ending = <<>>
    /\ received = 1
    /\ Len(saving) = 1
    /\ saving[1].body.sessionId = pageSessionId

\* the events the page lists that are of the type
Listed(list, type) == {i \in 1..Len(list) : list[i].event_type = type}

\* C36: on the page, totalEvents is the length of the events list, each of
\* the four counters is the number of listed events of its type, and an
\* event that is handled goes after those listed before it, which stay
\* where they were.
C36_CountersMatchList ==
    [][/\ sessionStats'.totalEvents = Len(pageEvents')
       /\ \A type \in EventTypes :
              sessionStats'[CounterOf(type)] = Cardinality(Listed(pageEvents', type))
       /\ Len(pageEvents') \in {Len(pageEvents), Len(pageEvents) + 1}
       /\ SubSeq(pageEvents', 1, Len(pageEvents)) = pageEvents]_vars

\* an event of no counted type and an event of a counted type, listed as
\* they came
C36_Witness ==
    /\ Len(pageEvents) = 2
    /\ pageEvents[1].event_type = "talking"
    /\ pageEvents[2].event_type = "no_face"
    /\ sessionStats.totalEvents = 2
    /\ sessionStats.noFaceCount = 1

\* the sum of the four category counters of a document
CounterSum(doc) ==
    doc.lookingAwayCount + doc.noFaceCount + doc.multipleFaceCount
    + doc.unauthorizedObjectCount

\* C37: in every stored session that start and completed submitEvents calls
\* have made, totalEvents is the sum of the four category counters and the
\* number of events stored for its sessionId.
C37_TotalIsSumAndLog ==
    submitting = <<>> =>
        \A d \in Docs :
            /\ sessions[d].totalEvents = CounterSum(sessions[d])
            /\ sessions[d].totalEvents = Logged(sessions[d].sessionId, "totalEvents")

\* the session_ids the dashboard shows
Shown(list) == {list[i].session_id : i \in 1..Len(list)}

\* C38: the list fetchSessions sets holds each session_id once at most; a
\* session both sources report is shown by the backend's entry; and the
\* sessions of a source that answered successfully are shown whatever came
\* of the other source.
C38_MergedSessions ==
    [][\A backend \in BackendResponses, mongo \in MongoOutcomes :
          FetchSessions(backend, mongo) =>
              LET list == dashboardSessions'
              IN  /\ \A i, j \in 1..Len(list) :
                         list[i].session_id = list[j].session_id => i = j
                  /\ \A i \in 1..Len(list) :
                         (backend.outcome = "ok"
                             /\ list[i].session_id \in Shown(backend.sessions))
                         => "source" \notin DOMAIN list[i]
                  /\ backend.outcome = "ok" => Shown(backend.sessions) \subseteq Shown(list)
                  /\ mongo = "ok" =>
                         {response.body[i].sessionId : i \in 1..Len(response.body)}
                             \subseteq Shown(list)]_vars

====
